---- MODULE Spec2Model ----
(***************************************************************************)
(* Replacement layer of a shared set-associative cache:                    *)
(*   - partition : static way partitioning with LRU inside each partition  *)
(*                 (src/replacement/partition/partition.{h,cc})            *)
(*   - random    : invalid-way-first, otherwise a uniform draw             *)
(*                 (src/replacement/random/random.cc)                      *)
(* The cache that owns the blocks and calls the policy is not part of the  *)
(* sources; its fill and access paths are modelled from spec.md (4.1, 2).  *)
(***************************************************************************)
EXTENDS Integers, FiniteSets, Sequences, TLC

\* ------------------------------------------------------------------ bounds
MaxCpus == 3       \* NUM_CPUS ranges over 1..MaxCpus
MaxWays == 3       \* NUM_WAY  ranges over 1..MaxWays
MaxSets == 2       \* NUM_SET  ranges over 1..MaxSets
MaxCycle == 4      \* the run stops stamping once cycle reaches MaxCycle
MaxSlots == 4      \* NUM_SET * NUM_WAY, the size of the recency table, is at most MaxSlots
MaxCallCycle == 3  \* direct calls stop once cycle reaches MaxCallCycle
MaxCallSlots == 3  \* size of the recency table in the runs of direct calls

\* access_type tags of the simulator; only WRITE is distinguished by the
\* policy (partition.cc:64)
AccessTypes == {"LOAD", "RFO", "WRITE"}

VARIABLES
  policy,                  \* which replacement module the cache was built with
  NUM_CPUS,                \* global configuration constant (partition.cc:12,17)
  NUM_WAY,                 \* partition::NUM_WAY / random::NUM_WAY
  NUM_SET,                 \* `sets` of the constructor (partition.cc:9-11)
  last_used_cycles,        \* partition::last_used_cycles, flat [set*NUM_WAY+way]
  cycle,                   \* partition::cycle, the logical clock
  partition_left_margins,  \* partition::partition_left_margins, 0..NUM_CPUS
  initialized,             \* initialize_replacement() has run at least once
  blocks,                  \* valid bit of every cache block, flat like last_used_cycles
  warmup_calls,            \* history: fills served so far per <<cpu, set>>
  set_fills,               \* history: fills served so far per set
  halted,                  \* the process died (failed assert / uncaught exception)
  call,                    \* the last operation, its arguments and its outcome
  owner,                   \* owning_cpu of every cache block, flat like blocks (-1: none yet)
  stats,                   \* g_llc_stats, the llc_stats instance (cache_stats.h:23-71)
  stamped,                 \* history: the recency entries written so far
  stamps,                  \* history: how many stamps have been performed
  use_order,               \* history: slots in the order of their latest qualifying use
  hb,                      \* history: heartbeats seen, live counters at the reference
                           \* heartbeat, per-period deltas summed since then
  events                   \* history: events reported to the statistics engine

vars == <<policy, NUM_CPUS, NUM_WAY, NUM_SET, last_used_cycles, cycle,
          partition_left_margins, initialized, blocks, warmup_calls, set_fills, halted, call,
          owner, stats, stamped, stamps, use_order, hb, events>>

\* what the policy-only runs leave alone: the cache's ownership tags, the
\* statistics engine and the history variables
aux == <<owner, stats, stamped, stamps, use_order, hb, events>>

config == <<policy, NUM_CPUS, NUM_WAY, NUM_SET>>

\* ------------------------------------------------------------- index sets
Cpus == 0 .. (NUM_CPUS - 1)
Ways == 0 .. (NUM_WAY - 1)
Sets == 0 .. (NUM_SET - 1)
Snapshots == [Ways -> BOOLEAN]

\* flat index of (set, way): set * NUM_WAY + way  (partition.cc:42,57,65)
Slot(set, way) == set * NUM_WAY + way

\* the read-only snapshot of one set handed to find_victim: current_set[w].valid
SetSnapshot(set) == [w \in Ways |-> blocks[Slot(set, w)]]

NoCall == [op |-> "none", cpu |-> -1, set |-> -1, way |-> -1, type |-> "-",
           hit |-> FALSE, snap |-> <<>>, outcome |-> "-", nth |-> -1]

\* history counters stop counting at NUM_WAY (no warm-up is longer)
Saturating(n) == IF n < NUM_WAY THEN n + 1 ELSE n

\* ------------------------------------------------------- struct llc_stats
\* constexpr std::size_t MAX_CPUS_FOR_COMPETITION = 16;  (cache_stats.h:15)
MAX_CPUS_FOR_COMPETITION == 16

\* every per-CPU vector has MAX_CPUS_FOR_COMPETITION entries, all 0
CpuSlots == 0 .. (MAX_CPUS_FOR_COMPETITION - 1)
ZeroVec == [c \in CpuSlots |-> 0]

\* the members of llc_stats that are std::vector<uint64_t>; the two
\* way_occupancy_sample_count members are plain uint64_t
VectorFields ==
  {"evictions_caused", "evicted_by_others",
   "last_heartbeat_evictions_caused", "last_heartbeat_evicted_by_others",
   "accesses", "misses", "last_heartbeat_accesses", "last_heartbeat_misses",
   "total_lifetime_cycles", "eviction_count",
   "last_heartbeat_total_lifetime_cycles", "last_heartbeat_eviction_count",
   "total_evictions_caused", "last_heartbeat_total_evictions_caused",
   "way_occupancy_samples", "last_heartbeat_way_occupancy_samples",
   "heartbeat_interim_lifetime_sum", "heartbeat_interim_line_count",
   "fill_count", "last_heartbeat_fill_count"}
ScalarFields == {"way_occupancy_sample_count", "last_heartbeat_way_occupancy_sample_count"}

\* a default-constructed llc_stats
llc_stats ==
  [f \in VectorFields \cup ScalarFields |-> IF f \in ScalarFields THEN 0 ELSE ZeroVec]

\* the live counter that has a last_heartbeat member, and that member.  The
\* struct declares none for heartbeat_interim_lifetime_sum and
\* heartbeat_interim_line_count (cache_stats.h:57-61).
ShadowOf ==
  [evictions_caused |-> "last_heartbeat_evictions_caused",
   evicted_by_others |-> "last_heartbeat_evicted_by_others",
   accesses |-> "last_heartbeat_accesses",
   misses |-> "last_heartbeat_misses",
   total_lifetime_cycles |-> "last_heartbeat_total_lifetime_cycles",
   eviction_count |-> "last_heartbeat_eviction_count",
   total_evictions_caused |-> "last_heartbeat_total_evictions_caused",
   way_occupancy_samples |-> "last_heartbeat_way_occupancy_samples",
   way_occupancy_sample_count |-> "last_heartbeat_way_occupancy_sample_count",
   fill_count |-> "last_heartbeat_fill_count"]

\* the same pairing read from the shadow member
LiveOf ==
  [last_heartbeat_evictions_caused |-> "evictions_caused",
   last_heartbeat_evicted_by_others |-> "evicted_by_others",
   last_heartbeat_accesses |-> "accesses",
   last_heartbeat_misses |-> "misses",
   last_heartbeat_total_lifetime_cycles |-> "total_lifetime_cycles",
   last_heartbeat_eviction_count |-> "eviction_count",
   last_heartbeat_total_evictions_caused |-> "total_evictions_caused",
   last_heartbeat_way_occupancy_samples |-> "way_occupancy_samples",
   last_heartbeat_way_occupancy_sample_count |-> "way_occupancy_sample_count",
   last_heartbeat_fill_count |-> "fill_count"]

LiveFields ==
  DOMAIN ShadowOf \cup {"heartbeat_interim_lifetime_sum", "heartbeat_interim_line_count"}

\* the live counters of a statistics object, as read by the reporting side
LiveSnapshot(st) == [f \in LiveFields |-> st[f]]

\* elementwise lhs - rhs of one field (a vector or a scalar)
FieldMinus(f, lhs, rhs) ==
  IF f \in ScalarFields THEN lhs - rhs ELSE [c \in CpuSlots |-> lhs[c] - rhs[c]]

FieldPlus(f, lhs, rhs) ==
  IF f \in ScalarFields THEN lhs + rhs ELSE [c \in CpuSlots |-> lhs[c] + rhs[c]]

\* no heartbeat yet: no reference heartbeat, nothing summed
NoBeat == [beats |-> 0, snaps |-> <<>>, deltas |-> <<>>]

\* the cache tags no block, the statistics are zero, no history
AuxInit ==
  /\ owner = [i \in 0 .. (NUM_SET * NUM_WAY - 1) |-> -1]
  /\ stats = llc_stats
  /\ stamped = {}
  /\ stamps = 0
  /\ use_order = <<>>
  /\ hb = NoBeat
  /\ events = 0

\* ------------------------------------------------------------ construction
\* partition::partition(cache, sets, ways): every stamp 0, every margin 0,
\* cycle = 0 (partition.h:14).  The cache starts with every block invalid.
Init ==
  /\ policy \in {"partition", "random"}
  /\ NUM_CPUS \in 1 .. MaxCpus
  /\ NUM_WAY \in 1 .. MaxWays
  /\ NUM_SET \in 1 .. MaxSets
  /\ NUM_SET * NUM_WAY <= MaxSlots
  /\ last_used_cycles = [i \in 0 .. (NUM_SET * NUM_WAY - 1) |-> 0]
  /\ cycle = 0
  /\ partition_left_margins = [i \in 0 .. NUM_CPUS |-> 0]
  /\ initialized = FALSE
  /\ blocks = [i \in 0 .. (NUM_SET * NUM_WAY - 1) |-> FALSE]
  /\ warmup_calls = [p \in (0 .. (NUM_CPUS - 1)) \X (0 .. (NUM_SET - 1)) |-> 0]
  /\ set_fills = [s \in 0 .. (NUM_SET - 1) |-> 0]
  /\ halted = FALSE
  /\ call = NoCall
  /\ AuxInit

\* ------------------------------------------------- initialize_replacement
\* long init_partition_ways = NUM_WAY / static_cast<long>(NUM_CPUS);
\* (division of longs truncates toward zero)
init_partition_ways ==
  IF NUM_WAY >= 0 THEN NUM_WAY \div NUM_CPUS ELSE -((-NUM_WAY) \div NUM_CPUS)

\* (mutant) the final margin is not clamped to NUM_WAY: it is computed like
\* the inner ones, so the remainder ways belong to nobody
ComputedMargins_NoClamp ==
  [i \in DOMAIN partition_left_margins |-> i * init_partition_ways]

\* (mutant) the remainder ways go to the first CPU instead of the last
ComputedMargins_RemainderFirst ==
  [i \in DOMAIN partition_left_margins |->
     IF i = 0 THEN 0
     ELSE IF i = NUM_CPUS THEN NUM_WAY
     ELSE i * init_partition_ways + (NUM_WAY % NUM_CPUS)]

\* (mutant) the margins are accumulated onto the table instead of assigned
ComputedMargins_Accumulate ==
  [i \in DOMAIN partition_left_margins |->
     partition_left_margins[i] +
       (IF i = NUM_CPUS THEN NUM_WAY ELSE i * init_partition_ways)]

\* The margin table after the three assignments of initialize_replacement,
\* applied in source order to the current table.
ComputedMargins ==
  LET m0 == [partition_left_margins EXCEPT ![0] = 0]
      m1 == [i \in DOMAIN m0 |->
               IF 1 <= i /\ i < NUM_CPUS THEN i * init_partition_ways ELSE m0[i]]
  IN  [m1 EXCEPT ![NUM_CPUS] = NUM_WAY]

initialize_replacement ==
  /\ policy = "partition"
  /\ ~halted
  /\ partition_left_margins' = ComputedMargins
  /\ initialized' = TRUE
  /\ call' = [NoCall EXCEPT !.op = "initialize", !.outcome = "return"]
  /\ UNCHANGED <<config, last_used_cycles, cycle, blocks, warmup_calls, set_fills,
                 halted>>

\* -------------------------------------------------- partition::find_victim
\* (mutant) every CPU's range starts at way 0
partition_start_Shared(cpu) == 0

partition_start(cpu) == partition_left_margins[cpu]
partition_end(cpu) == partition_left_margins[cpu + 1]

\* (mutant) among equal smallest stamps the last position wins
min_element_LastWins(first, last) ==
  IF first >= last THEN last
  ELSE CHOOSE i \in first .. (last - 1) :
         /\ \A j \in first .. (last - 1) : last_used_cycles[i] <= last_used_cycles[j]
         /\ \A j \in (i + 1) .. (last - 1) : last_used_cycles[j] > last_used_cycles[i]

\* std::min_element(begin, end) over last_used_cycles: the first position of
\* the smallest element, or `last` when the range is empty.
min_element(first, last) ==
  IF first >= last THEN last
  ELSE CHOOSE i \in first .. (last - 1) :
         /\ \A j \in first .. (last - 1) : last_used_cycles[i] <= last_used_cycles[j]
         /\ \A j \in first .. (i - 1) : last_used_cycles[j] > last_used_cycles[i]

\* (mutant) the warm-up scan runs over the whole set, as in the random policy
InvalidInPartition_WholeSet(cpu, snap) == {w \in 0 .. (NUM_WAY - 1) : ~snap[w]}

\* the warm-up scan of partition.cc:35-39: invalid ways of the partition
InvalidInPartition(cpu, snap) ==
  {w \in partition_start(cpu) .. (partition_end(cpu) - 1) : ~snap[w]}

SetMin(S) == CHOOSE x \in S : \A y \in S : x <= y

\* (mutant) the LRU branch returns the offset inside the partition instead of
\* the way index
find_victim_Offset(cpu, set, snap) ==
  LET begin  == Slot(set, partition_start(cpu))
      endIt  == Slot(set, partition_end(cpu))
      victim == min_element(begin, endIt)
      inv    == InvalidInPartition(cpu, snap)
  IN  IF inv # {}
      THEN [outcome |-> "return", way |-> SetMin(inv)]
      ELSE IF ~(begin <= victim /\ victim < endIt)
           THEN [outcome |-> "assert_fail", way |-> -1]
           ELSE [outcome |-> "return", way |-> victim - begin]

\* Outcome of find_victim(triggering_cpu, _, set, current_set, _, _, type):
\* "return" with the way, or "assert_fail" when one of the two asserts of
\* partition.cc:47-48 trips (assert() is compiled in: nothing in the sources
\* defines NDEBUG).
find_victim(cpu, set, snap) ==
  LET start  == partition_start(cpu)
      end    == partition_end(cpu)
      inv    == InvalidInPartition(cpu, snap)
      begin  == Slot(set, start)
      endIt  == Slot(set, end)
      victim == min_element(begin, endIt)
  IN  IF inv # {}
      THEN [outcome |-> "return", way |-> SetMin(inv)]
      ELSE IF ~(begin <= victim /\ victim < endIt)
           THEN [outcome |-> "assert_fail", way |-> -1]
           ELSE [outcome |-> "return", way |-> start + (victim - begin)]

\* ---------------------------------------- partition::replacement_cache_fill
\* last_used_cycles.at(set * NUM_WAY + way) = cycle++;
\* at() throws std::out_of_range for an index outside the vector; whether
\* cycle++ has already been evaluated then depends on the language version
\* (the right operand is sequenced first from C++17 on).
AtInRange(set, way) == Slot(set, way) \in DOMAIN last_used_cycles

\* (mutant) the clock is not advanced by a stamp
Stamp_NoTick(set, way) ==
  /\ last_used_cycles' = [last_used_cycles EXCEPT ![Slot(set, way)] = cycle]
  /\ cycle' = cycle

\* (mutant) the clock is advanced before it is written: = ++cycle
Stamp_PreIncrement(set, way) ==
  IF AtInRange(set, way)
  THEN /\ last_used_cycles' = [last_used_cycles EXCEPT ![Slot(set, way)] = cycle + 1]
       /\ cycle' = cycle + 1
  ELSE /\ last_used_cycles' = last_used_cycles
       /\ cycle' \in {cycle, cycle + 1}

Stamp(set, way) ==
  IF AtInRange(set, way)
  THEN /\ last_used_cycles' = [last_used_cycles EXCEPT ![Slot(set, way)] = cycle]
       /\ cycle' = cycle + 1
  ELSE /\ last_used_cycles' = last_used_cycles
       /\ cycle' \in {cycle, cycle + 1}

\* (mutant) the way is taken relative to the requester's partition
replacement_cache_fill_Relative(cpu, set, way, type) ==
  Stamp(set, partition_left_margins[cpu] + way)

replacement_cache_fill(cpu, set, way, type) == Stamp(set, way)

\* -------------------------------------- partition::update_replacement_state
\* if (hit && access_type{type} != access_type::WRITE) <stamp>
\* (mutant) every hit refreshes, writes included
Refreshes_AnyHit(type, hit) == hit

Refreshes(type, hit) == hit /\ type # "WRITE"

\* (mutant) a write hit is stamped like any other hit
update_replacement_state_WriteRefresh(cpu, set, way, type, hit) ==
  IF hit
  THEN Stamp(set, way)
  ELSE UNCHANGED <<last_used_cycles, cycle>>

update_replacement_state(cpu, set, way, type, hit) ==
  IF Refreshes(type, hit)
  THEN Stamp(set, way)
  ELSE UNCHANGED <<last_used_cycles, cycle>>

\* outcome of a stamping call: normal return or the exception of at()
StampOutcome(set, way) == IF AtInRange(set, way) THEN "return" ELSE "out_of_range"

\* ------------------------------------------------ the cache's fill path
\* spec.md 2, 4.1: the cache asks the policy for a victim in the set, puts the
\* new block there (the way becomes valid) and then reports the fill.  A
\* failed assert inside find_victim ends the process before anything is filled.
HandleFill(cpu, set, type) ==
  /\ policy = "partition"
  /\ ~halted
  /\ initialized
  /\ cycle < MaxCycle
  /\ LET r == find_victim(cpu, set, SetSnapshot(set))
     IN  IF r.outcome = "return"
         THEN /\ blocks' = [blocks EXCEPT ![Slot(set, r.way)] = TRUE]
              /\ replacement_cache_fill(cpu, set, r.way, type)
              /\ warmup_calls' = [warmup_calls EXCEPT ![<<cpu, set>>] = Saturating(@)]
              /\ set_fills' = [set_fills EXCEPT ![set] = Saturating(@)]
              /\ call' = [NoCall EXCEPT !.op = "fill", !.cpu = cpu, !.set = set,
                                        !.way = r.way, !.snap = SetSnapshot(set),
                                        !.nth = warmup_calls[<<cpu, set>>],
                                        !.outcome = StampOutcome(set, r.way)]
              /\ halted' = ~AtInRange(set, r.way)
         ELSE /\ call' = [NoCall EXCEPT !.op = "fill", !.cpu = cpu, !.set = set,
                                        !.snap = SetSnapshot(set),
                                        !.outcome = r.outcome]
              /\ halted' = TRUE
              /\ UNCHANGED <<blocks, last_used_cycles, cycle, warmup_calls, set_fills>>
  /\ UNCHANGED <<config, partition_left_margins, initialized>>

\* ---------------------------------------------- the cache's access path

\* spec.md 2: every completed access is reported with its outcome; a hit is a
\* hit on a valid block of the set.  The record of a miss keeps its type
\* only: the set and way of a miss are read by nothing.
HandleAccess(cpu, set, way, type, hit) ==
  /\ policy = "partition"
  /\ ~halted
  /\ initialized
  /\ hit => blocks[Slot(set, way)]
  /\ Refreshes(type, hit) => cycle < MaxCycle
  /\ update_replacement_state(cpu, set, way, type, hit)
  /\ call' = [NoCall EXCEPT !.op = "access",
                            !.set = IF hit THEN set ELSE -1,
                            !.way = IF hit THEN way ELSE -1,
                            !.type = type, !.hit = hit,
                            !.outcome = IF Refreshes(type, hit)
                                        THEN StampOutcome(set, way) ELSE "return"]
  /\ halted' = (Refreshes(type, hit) /\ ~AtInRange(set, way))
  /\ UNCHANGED <<config, partition_left_margins, initialized, blocks,
                 warmup_calls, set_fills>>

\* ----------------------------------------------------- random::find_victim
\* (mutant) the draw is confined to the first CPU's share of the ways
dist_FirstShare == 0 .. ((NUM_WAY \div NUM_CPUS) - 1)

\* dist(0, ways - 1): the values the policy-local random source can draw
dist == 0 .. (NUM_WAY - 1)

\* the ways random::find_victim can return for a snapshot: the first invalid
\* way of the whole set, otherwise whatever dist(rng) draws
random_find_victim(cpu, set, snap) ==
  LET inv == {w \in 0 .. (NUM_WAY - 1) : ~snap[w]}
  IN  IF inv # {} THEN {SetMin(inv)} ELSE dist

\* the fill path of a cache built with the random policy (the policy's fill
\* and access notifications keep no state, spec.md 4.3)
RandomHandleFill(cpu, set, type) ==
  /\ policy = "random"
  /\ ~halted
  /\ \E w \in random_find_victim(cpu, set, SetSnapshot(set)) :
       /\ blocks' = [blocks EXCEPT ![Slot(set, w)] = TRUE]
       /\ call' = [NoCall EXCEPT !.op = "random_fill", !.cpu = cpu, !.set = set,
                                 !.way = w, !.snap = SetSnapshot(set),
                                 !.nth = set_fills[set], !.outcome = "return"]
  /\ set_fills' = [set_fills EXCEPT ![set] = Saturating(@)]
  /\ UNCHANGED <<config, last_used_cycles, cycle, partition_left_margins,
                 initialized, warmup_calls, halted>>

\* ------------------------------------------------------------ specification
Next ==
  \/ initialize_replacement /\ UNCHANGED aux
  \/ \E cpu \in Cpus, set \in Sets, type \in AccessTypes :
       HandleFill(cpu, set, type) /\ UNCHANGED aux
  \/ \E cpu \in Cpus, set \in Sets, way \in Ways, type \in AccessTypes, hit \in BOOLEAN :
       HandleAccess(cpu, set, way, type, hit) /\ UNCHANGED aux
  \/ \E cpu \in Cpus, set \in Sets, type \in AccessTypes :
       RandomHandleFill(cpu, set, type) /\ UNCHANGED aux

Spec == Init /\ [][Next]_vars

\* ------------------------------------------------ unchecked configurations
\* CPU counts around the bound of the statistics vectors
ConfigCpus == {1, 2, MAX_CPUS_FOR_COMPETITION, MAX_CPUS_FOR_COMPETITION + 1}

\* partition::partition(cache, sets, ways) for any sets and ways the caller
\* passes: the recency table gets static_cast<std::size_t>(sets * ways)
\* entries.  A negative product converts to a size beyond max_size() and the
\* vector constructor throws std::length_error: no policy object exists.
\* Nothing in the constructor looks at NUM_CPUS, sets or ways otherwise.
ConfigInit ==
  /\ policy = "partition"
  /\ NUM_CPUS \in ConfigCpus
  /\ NUM_WAY \in -1 .. MaxWays
  /\ NUM_SET \in -1 .. MaxSets
  /\ NUM_SET * NUM_WAY <= MaxSlots
  /\ last_used_cycles = [i \in 0 .. (NUM_SET * NUM_WAY - 1) |-> 0]
  /\ cycle = 0
  /\ partition_left_margins = [i \in 0 .. NUM_CPUS |-> 0]
  /\ initialized = FALSE
  /\ blocks = [i \in 0 .. (NUM_SET * NUM_WAY - 1) |-> FALSE]
  /\ warmup_calls = [p \in (0 .. (NUM_CPUS - 1)) \X (0 .. (NUM_SET - 1)) |-> 0]
  /\ set_fills = [s \in 0 .. (NUM_SET - 1) |-> 0]
  /\ halted = (NUM_SET * NUM_WAY < 0)
  /\ call = IF NUM_SET * NUM_WAY < 0
            THEN [NoCall EXCEPT !.op = "construct", !.outcome = "length_error"]
            ELSE NoCall
  /\ AuxInit

ConfigNext ==
  \/ initialize_replacement /\ UNCHANGED aux
  \/ \E cpu \in Cpus, set \in Sets, type \in AccessTypes :
       HandleFill(cpu, set, type) /\ UNCHANGED aux
  \/ \E cpu \in Cpus, set \in Sets, way \in Ways, type \in AccessTypes, hit \in BOOLEAN :
       HandleAccess(cpu, set, way, type, hit) /\ UNCHANGED aux

SpecConfig == ConfigInit /\ [][ConfigNext]_vars

\* ------------------------------------------- the policy called directly
\* The three entry points as any caller can use them: the snapshot handed
\* to find_victim is whatever the caller passes, and the set and way of a
\* notification are not checked by anybody before they reach the policy.
AnySets == 0 .. NUM_SET
AnyWays == -1 .. NUM_WAY
\* the CPU a notification is made for: the first one or the last one
AnyCpus == {0, NUM_CPUS - 1}

\* (mutant) the policy counts the selection as a use of the victim and
\* stamps it
select_victim_Touch(cpu, set, snap) ==
  /\ policy = "partition"
  /\ ~halted
  /\ initialized
  /\ cycle < MaxCallCycle
  /\ LET r == find_victim(cpu, set, snap)
     IN  /\ call' = [NoCall EXCEPT !.op = "find_victim", !.cpu = cpu, !.set = set,
                                   !.snap = snap, !.way = r.way,
                                   !.outcome = r.outcome]
         /\ halted' = (r.outcome # "return")
         /\ IF r.outcome = "return"
            THEN Stamp(set, r.way)
            ELSE UNCHANGED <<last_used_cycles, cycle>>
  /\ UNCHANGED <<config, partition_left_margins, initialized, blocks,
                 warmup_calls, set_fills>>

\* find_victim(triggering_cpu, _, set, current_set, _, _, type): no member is
\* written (partition.cc:27-51); a failed assert ends the process
select_victim(cpu, set, snap) ==
  /\ policy = "partition"
  /\ ~halted
  /\ initialized
  /\ LET r == find_victim(cpu, set, snap)
     IN  /\ call' = [NoCall EXCEPT !.op = "find_victim", !.cpu = cpu, !.set = set,
                                   !.snap = snap, !.way = r.way,
                                   !.outcome = r.outcome]
         /\ halted' = (r.outcome # "return")
  /\ UNCHANGED <<config, last_used_cycles, cycle, partition_left_margins,
                 initialized, blocks, warmup_calls, set_fills>>

\* replacement_cache_fill(triggering_cpu, set, way, _, _, _, type) for any
\* set and way (partition.cc:53-58); an exception of at() is not caught
on_fill(cpu, set, way, type) ==
  /\ policy = "partition"
  /\ ~halted
  /\ initialized
  /\ cycle < MaxCallCycle
  /\ replacement_cache_fill(cpu, set, way, type)
  /\ call' = [NoCall EXCEPT !.op = "on_fill", !.set = set, !.way = way,
                            !.outcome = StampOutcome(set, way)]
  /\ halted' = ~AtInRange(set, way)
  /\ UNCHANGED <<config, partition_left_margins, initialized, blocks,
                 warmup_calls, set_fills>>

\* update_replacement_state(triggering_cpu, set, way, _, _, _, type, hit)
\* for any set and way (partition.cc:60-66).  The record of a miss keeps
\* its type only.
on_access(cpu, set, way, type, hit) ==
  /\ policy = "partition"
  /\ ~halted
  /\ initialized
  /\ cycle < MaxCallCycle
  /\ update_replacement_state(cpu, set, way, type, hit)
  /\ call' = [NoCall EXCEPT !.op = "on_access",
                            !.set = IF hit THEN set ELSE -1,
                            !.way = IF hit THEN way ELSE -1,
                            !.type = type, !.hit = hit,
                            !.outcome = IF Refreshes(type, hit)
                                        THEN StampOutcome(set, way) ELSE "return"]
  /\ halted' = (Refreshes(type, hit) /\ ~AtInRange(set, way))
  /\ UNCHANGED <<config, partition_left_margins, initialized, blocks,
                 warmup_calls, set_fills>>

\* history of the stamps: a fill, or a hit that is not a write, whose flat
\* index lies in the table writes one entry
RecordStamp(set, way, qualifies) ==
  LET written == qualifies /\ (set * NUM_WAY + way) \in DOMAIN last_used_cycles
  IN  /\ stamped' = IF written THEN stamped \cup {set * NUM_WAY + way} ELSE stamped
      /\ stamps' = IF written THEN stamps + 1 ELSE stamps
      /\ UNCHANGED <<owner, stats, use_order, hb, events>>

CallsNext ==
  \/ initialize_replacement /\ UNCHANGED aux
  \/ \E cpu \in Cpus, set \in Sets, snap \in Snapshots :
       select_victim(cpu, set, snap) /\ UNCHANGED aux
  \/ \E cpu \in AnyCpus, set \in AnySets, way \in AnyWays, type \in AccessTypes :
       on_fill(cpu, set, way, type) /\ RecordStamp(set, way, TRUE)
  \/ \E cpu \in AnyCpus, set \in AnySets, way \in AnyWays, type \in AccessTypes,
        hit \in BOOLEAN :
       on_access(cpu, set, way, type, hit)
       /\ RecordStamp(set, way, hit /\ type # "WRITE")

\* a policy object of two CPUs (the notifications never read NUM_CPUS)
CallsInit ==
  Init /\ policy = "partition" /\ NUM_CPUS = 2 /\ NUM_SET * NUM_WAY <= MaxCallSlots

SpecCalls == CallsInit /\ [][CallsNext]_vars

\* ------------------------------------------------- the statistics engine
\* The code that updates g_llc_stats is in cache.cc, which is not among the
\* sources; the events below follow spec.md 4.5 on the members of llc_stats.
MaxEvents == 3      \* counting events reported to the statistics engine in one run
MaxBeats == 3       \* heartbeats in one run

\* resident lifetimes (in cycles) reported with an eviction or found by the
\* interim sampling
Lifetimes == {2}

\* The caller reports an eviction exactly once per evicted block and only
\* for a block that was filled (spec.md 6, 7), so the valid lines a CPU owns
\* are the ones filled for it and not evicted since.
Resident == [c \in Cpus |-> stats.fill_count[c] - stats.eviction_count[c]]

policy_state == <<config, last_used_cycles, cycle, partition_left_margins,
                  initialized, blocks, warmup_calls, set_fills, halted>>

SumVec(vec) ==
  LET RECURSIVE upto(_)
      upto(k) == IF k < 0 THEN 0 ELSE vec[k] + upto(k - 1)
  IN  upto(MAX_CPUS_FOR_COMPETITION - 1)

\* "On every access by CPU c: increment accesses[c]; on miss, increment
\* misses[c]."
CountAccess(st, c, miss) ==
  [st EXCEPT !.accesses[c] = @ + 1,
             !.misses[c] = IF miss THEN @ + 1 ELSE @]

\* "On every fill by CPU c: increment fill_count[c]."
CountFill(st, c) == [st EXCEPT !.fill_count[c] = @ + 1]

\* (mutant) the cross-CPU counters are bumped for a same-owner eviction too
CountEviction_NoOwnerTest(st, evictor, victim_owner, lifetime) ==
  [st EXCEPT !.total_evictions_caused[evictor] = @ + 1,
             !.evictions_caused[evictor] = @ + 1,
             !.evicted_by_others[victim_owner] = @ + 1,
             !.eviction_count[victim_owner] = @ + 1,
             !.total_lifetime_cycles[victim_owner] = @ + lifetime]

\* "On every eviction of a block owned by CPU victim_owner caused by a fill
\* on behalf of CPU evictor: ..."
CountEviction(st, evictor, victim_owner, lifetime) ==
  [st EXCEPT !.total_evictions_caused[evictor] = @ + 1,
             !.evictions_caused[evictor] =
                IF victim_owner # evictor THEN @ + 1 ELSE @,
             !.evicted_by_others[victim_owner] =
                IF victim_owner # evictor THEN @ + 1 ELSE @,
             !.eviction_count[victim_owner] = @ + 1,
             !.total_lifetime_cycles[victim_owner] = @ + lifetime]

\* way-occupancy sampling: owned[c] valid ways owned by CPU c right now; the
\* sample count is one scalar for the round
CountSample(st, owned) ==
  [st EXCEPT !.way_occupancy_samples =
                [c \in CpuSlots |-> IF c \in DOMAIN owned THEN @[c] + owned[c] ELSE @[c]],
             !.way_occupancy_sample_count = @ + 1]

\* interim lifetime sampling at a heartbeat: CPU c has lines[c] resident
\* lines, each resident for `age` cycles
CountInterim(st, lines, age) ==
  [st EXCEPT !.heartbeat_interim_lifetime_sum =
                [c \in CpuSlots |-> IF c \in DOMAIN lines THEN @[c] + lines[c] * age ELSE @[c]],
             !.heartbeat_interim_line_count =
                [c \in CpuSlots |-> IF c \in DOMAIN lines THEN @[c] + lines[c] ELSE @[c]]]

\* heartbeat differencing: delta = live - last_heartbeat_shadow for every
\* live counter that has a shadow member
HeartbeatDelta(st) ==
  [f \in DOMAIN ShadowOf |-> FieldMinus(f, st[f], st[ShadowOf[f]])]

\* (mutant) the shadows are added to instead of overwritten
StoreShadows_Accumulate(st) ==
  [f \in DOMAIN st |->
     IF f \in DOMAIN LiveOf THEN FieldPlus(f, st[f], st[LiveOf[f]]) ELSE st[f]]

\* ... then last_heartbeat_shadow = live
StoreShadows(st) ==
  [f \in DOMAIN st |-> IF f \in DOMAIN LiveOf THEN st[LiveOf[f]] ELSE st[f]]

StatAccess(c, miss) ==
  /\ events < MaxEvents
  /\ events' = events + 1
  /\ stats' = CountAccess(stats, c, miss)
  /\ call' = [op |-> "stat_access"]
  /\ UNCHANGED <<policy_state, owner, stamped, stamps, use_order, hb>>

StatFill(c) ==
  /\ events < MaxEvents
  /\ events' = events + 1
  /\ stats' = CountFill(stats, c)
  /\ call' = [op |-> "stat_fill"]
  /\ UNCHANGED <<policy_state, owner, stamped, stamps, use_order, hb>>

StatEviction(evictor, victim_owner, lifetime) ==
  /\ events < MaxEvents
  /\ Resident[victim_owner] > 0
  /\ events' = events + 1
  /\ stats' = CountEviction(stats, evictor, victim_owner, lifetime)
  /\ call' = [op |-> "stat_eviction", evictor |-> evictor,
              victim_owner |-> victim_owner, lifetime |-> lifetime]
  /\ UNCHANGED <<policy_state, owner, stamped, stamps, use_order, hb>>

StatSample ==
  /\ events < MaxEvents
  /\ events' = events + 1
  /\ stats' = CountSample(stats, Resident)
  /\ call' = [op |-> "stat_sample"]
  /\ UNCHANGED <<policy_state, owner, stamped, stamps, use_order, hb>>

\* A heartbeat: interim sampling, then differencing.  The history keeps,
\* for every heartbeat so far, the live counters read at it and the
\* per-period delta computed at it.
Heartbeat(age) ==
  /\ hb.beats < MaxBeats
  /\ LET sampled == CountInterim(stats, Resident, age)
     IN  /\ stats' = StoreShadows(sampled)
         /\ hb' = [beats |-> hb.beats + 1,
                   snaps |-> Append(hb.snaps, LiveSnapshot(sampled)),
                   deltas |-> Append(hb.deltas, HeartbeatDelta(sampled))]
  /\ call' = [op |-> "heartbeat"]
  /\ UNCHANGED <<policy_state, owner, stamped, stamps, use_order, events>>

StatsNext ==
  \/ \E c \in Cpus, miss \in BOOLEAN : StatAccess(c, miss)
  \/ \E c \in Cpus : StatFill(c)
  \/ \E e \in Cpus, v \in Cpus, n \in Lifetimes : StatEviction(e, v, n)
  \/ StatSample
  \/ \E age \in Lifetimes : Heartbeat(age)

\* the statistics object next to a cache of two or more CPUs
StatsInit ==
  Init /\ policy = "partition" /\ NUM_CPUS = 2 /\ NUM_WAY = 1 /\ NUM_SET = 1

SpecStats == StatsInit /\ [][StatsNext]_vars

\* ------------------------------------- the cache with its statistics
\* The closed loop of spec.md 2 with the bookkeeping that goes with it: the
\* filled block is tagged with the requesting CPU, the fill and the eviction
\* it causes are reported to the statistics engine (the per-CPU access
\* counters are the business of StatAccess).  The history records which
\* entries were stamped and the order of the latest qualifying use (a fill,
\* or a hit that is not a write).
Without(seq, x) == SelectSeq(seq, LAMBDA y : y # x)

MovedToEnd(seq, x) == Append(Without(seq, x), x)

FillEvents(cpu, set) ==
  /\ LET r    == find_victim(cpu, set, SetSnapshot(set))
         slot == set * NUM_WAY + r.way
     IN  IF r.outcome = "return"
         THEN /\ owner' = [owner EXCEPT ![slot] = cpu]
              /\ \E n \in Lifetimes :
                   stats' = CountFill(IF blocks[slot]
                                      THEN CountEviction(stats, cpu, owner[slot], n)
                                      ELSE stats, cpu)
              /\ stamped' = stamped \cup {slot}
              /\ stamps' = stamps + 1
              /\ use_order' = MovedToEnd(use_order, slot)
         ELSE UNCHANGED <<owner, stats, stamped, stamps, use_order>>
  /\ UNCHANGED <<hb, events>>

AccessEvents(set, way, type, hit) ==
  /\ IF hit /\ type # "WRITE"
     THEN /\ stamped' = stamped \cup {set * NUM_WAY + way}
          /\ stamps' = stamps + 1
          /\ use_order' = MovedToEnd(use_order, set * NUM_WAY + way)
     ELSE UNCHANGED <<stamped, stamps, use_order>>
  /\ UNCHANGED <<owner, stats, hb, events>>

LoopNext ==
  \/ initialize_replacement /\ UNCHANGED aux
  \/ \E cpu \in Cpus, set \in Sets, type \in AccessTypes :
       HandleFill(cpu, set, type) /\ FillEvents(cpu, set)
  \/ \E cpu \in Cpus, set \in Sets, way \in Ways, type \in AccessTypes, hit \in BOOLEAN :
       HandleAccess(cpu, set, way, type, hit) /\ AccessEvents(set, way, type, hit)

LoopInit == Init /\ policy = "partition" /\ NUM_CPUS <= 2

SpecLoop == LoopInit /\ [][LoopNext]_vars

\* ====================================================================
\* Properties
\* ====================================================================
TypeOK ==
  /\ cycle \in 0 .. MaxCycle
  /\ DOMAIN last_used_cycles = 0 .. (NUM_SET * NUM_WAY - 1)
  /\ \A i \in DOMAIN last_used_cycles : last_used_cycles[i] \in 0 .. MaxCycle

Running == policy = "partition" /\ initialized
Width(cpu) == partition_end(cpu) - partition_start(cpu)
PartitionOf(cpu) == partition_start(cpu) .. (partition_end(cpu) - 1)
AllValidIn(cpu, snap) == \A w \in PartitionOf(cpu) : snap[w]
Filled == call.op = "fill" /\ call.outcome = "return"

\* C1 -- Partition completeness: once initialize_replacement has run, the
\* margin table starts at 0, ends at NUM_WAY, is non-decreasing, and every way
\* of the set lies in the range of exactly one CPU.
C1_PartitionCompleteness ==
  Running =>
    /\ partition_left_margins[0] = 0
    /\ partition_left_margins[NUM_CPUS] = NUM_WAY
    /\ \A i \in Cpus : partition_left_margins[i] <= partition_left_margins[i + 1]
    /\ \A w \in Ways : Cardinality({c \in Cpus : w \in PartitionOf(c)}) = 1

\* a table with a remainder and with several CPUs has been computed
C1_Witness ==
  /\ Running
  /\ call.op = "initialize"
  /\ NUM_CPUS >= 2
  /\ NUM_WAY % NUM_CPUS # 0
  /\ NUM_WAY > NUM_CPUS

\* C2 -- Partition confinement: for every CPU whose partition is non-empty,
\* every set and every snapshot, in every recency state the run reaches,
\* find_victim returns a way of the requester's own partition (hence of the
\* set); and every fill the cache has served landed in the requester's
\* partition.
C2_PartitionConfinement ==
  Running =>
    /\ \A cpu \in Cpus, set \in Sets, snap \in Snapshots :
         Width(cpu) > 0 =>
           LET r == find_victim(cpu, set, snap)
           IN  /\ r.outcome = "return"
               /\ r.way \in PartitionOf(cpu)
               /\ r.way \in Ways
    /\ Filled => call.way \in PartitionOf(call.cpu)

\* an LRU eviction served for a CPU other than CPU 0, next to another CPU
\* that owns ways too
C2_Witness ==
  /\ Filled
  /\ call.cpu > 0
  /\ Width(0) > 0
  /\ AllValidIn(call.cpu, call.snap)
  /\ call.way \in PartitionOf(call.cpu)

\* C3 -- Warm-up priority: from an all-invalid set, the first Width(c) fills
\* served for CPU c land in partition_start(c), partition_start(c)+1, ... in
\* that order, whatever other CPUs and other sets do in between; and for any
\* snapshot, while the requester's partition holds an invalid way,
\* find_victim returns the lowest-indexed invalid way of the partition.
C3_WarmupPriority ==
  Running =>
    /\ (Filled /\ call.nth < Width(call.cpu)) =>
         call.way = partition_start(call.cpu) + call.nth
    /\ \A cpu \in Cpus, set \in Sets, snap \in Snapshots :
         LET r == find_victim(cpu, set, snap)
         IN  (\E w \in PartitionOf(cpu) : ~snap[w]) =>
               /\ r.outcome = "return"
               /\ r.way \in PartitionOf(cpu)
               /\ ~snap[r.way]
               /\ \A w \in PartitionOf(cpu) : w < r.way => snap[w]

\* the last warm-up fill of a partition of two or more ways, in a set that
\* another CPU has filled into in the meantime
C3_Witness ==
  /\ Filled
  /\ call.nth >= 1
  /\ call.nth = Width(call.cpu) - 1
  /\ call.way = partition_end(call.cpu) - 1
  /\ \E other \in Cpus \ {call.cpu} : warmup_calls[<<other, call.set>>] > 0

\* C4 -- LRU correctness: when every way of the requester's non-empty
\* partition is valid, find_victim returns the way of the partition whose
\* stamp in that set is the smallest, the lowest-indexed one among equals;
\* nothing outside that range of that set takes part.
C4_LruCorrectness ==
  Running =>
    \A cpu \in Cpus, set \in Sets, snap \in Snapshots :
      (Width(cpu) > 0 /\ AllValidIn(cpu, snap)) =>
        LET r == find_victim(cpu, set, snap)
            stamp(w) == last_used_cycles[set * NUM_WAY + w]
        IN  /\ r.outcome = "return"
            /\ r.way \in PartitionOf(cpu)
            /\ \A w \in PartitionOf(cpu) : stamp(r.way) <= stamp(w)
            /\ \A w \in PartitionOf(cpu) : w < r.way => stamp(w) > stamp(r.way)

\* an eviction, in a set other than set 0, that took a way other than the
\* first of the partition
C4_Witness ==
  /\ Filled
  /\ call.set >= 1
  /\ AllValidIn(call.cpu, call.snap)
  /\ call.way > partition_start(call.cpu)

\* C5 -- Write-hit non-refresh: an access notification stamps recency[set, way]
\* with the clock and advances the clock exactly when it is a hit that is
\* not a write; a write hit and any miss leave the recency table and the
\* clock as they were.  A refreshing hit raises the stamp of its way.
C5_WriteHitNonRefresh ==
  [][call'.op = "access" =>
       IF call'.hit /\ call'.type # "WRITE"
       THEN LET slot == call'.set * NUM_WAY + call'.way
            IN  /\ last_used_cycles'[slot] = cycle
                /\ last_used_cycles'[slot] > last_used_cycles[slot]
                /\ cycle' = cycle + 1
       ELSE /\ last_used_cycles' = last_used_cycles
            /\ cycle' = cycle]_vars

\* a write hit on a way whose stamp is not the newest one
C5_Witness ==
  /\ call.op = "access"
  /\ call.hit
  /\ call.type = "WRITE"
  /\ blocks[call.set * NUM_WAY + call.way]
  /\ last_used_cycles[call.set * NUM_WAY + call.way] < cycle - 1

\* C6 -- Empty-partition tolerance (as claimed): a find_victim call for a CPU
\* whose partition is empty completes with a defined outcome and trips no
\* assertion.
C6_EmptyPartitionTolerated ==
  (Running /\ call.op = "fill" /\ Width(call.cpu) = 0) => call.outcome = "return"

\* C7 -- Monotonic recency clock: the clock never decreases; it advances by
\* exactly one on every stamp (every fill, every hit that is not a write) and
\* on nothing else; the stamp written is the clock value before the advance,
\* strictly greater than every stamp already held by a filled way, and no
\* entry of the recency table ever decreases.
StampingStep ==
  \/ call'.op = "fill" /\ call'.outcome = "return"
  \/ call'.op = "access" /\ call'.hit /\ call'.type # "WRITE"

C7_MonotonicClock ==
  [][policy = "partition" =>
       /\ cycle' = IF StampingStep THEN cycle + 1 ELSE cycle
       /\ \A i \in DOMAIN last_used_cycles : last_used_cycles[i] <= last_used_cycles'[i]
       /\ \A i \in DOMAIN last_used_cycles : blocks[i] => last_used_cycles[i] < cycle
       /\ StampingStep =>
            LET slot == call'.set * NUM_WAY + call'.way
            IN  /\ last_used_cycles'[slot] = cycle
                /\ \A i \in DOMAIN last_used_cycles :
                     blocks[i] => last_used_cycles[i] < last_used_cycles'[slot]]_vars

\* a way stamped by its fill has been stamped again by a later hit
C7_Witness ==
  /\ call.op = "access"
  /\ call.hit
  /\ call.type # "WRITE"
  /\ cycle >= 3
  /\ last_used_cycles[call.set * NUM_WAY + call.way] = cycle - 1

\* C8 -- Static even split: every CPU but the last owns exactly
\* floor(NUM_WAY / NUM_CPUS) ways starting at i * floor(NUM_WAY / NUM_CPUS);
\* the last CPU owns that many plus the whole remainder, ending at NUM_WAY.
C8_StaticEvenSplit ==
  Running =>
    LET share == NUM_WAY \div NUM_CPUS
        last  == NUM_CPUS - 1
    IN  /\ \A i \in 0 .. (last - 1) :
             /\ partition_start(i) = i * share
             /\ Width(i) = share
        /\ Width(last) = share + (NUM_WAY % NUM_CPUS)
        /\ partition_end(last) = NUM_WAY

\* a split with a non-zero share and a non-zero remainder
C8_Witness ==
  /\ Running
  /\ NUM_CPUS >= 2
  /\ NUM_WAY \div NUM_CPUS >= 1
  /\ NUM_WAY % NUM_CPUS >= 1
  /\ Width(NUM_CPUS - 1) > Width(0)

\* C9 -- initialize_replacement is idempotent: a second or later call, at any
\* point of the run, leaves the margin table, the recency table and the
\* logical clock as they were.
C9_InitializeIdempotent ==
  [][(initialized /\ call'.op = "initialize") =>
       /\ partition_left_margins' = partition_left_margins
       /\ last_used_cycles' = last_used_cycles
       /\ cycle' = cycle]_vars

\* initialize_replacement has been called again after fills and accesses
C9_Witness ==
  /\ Running
  /\ call.op = "initialize"
  /\ cycle >= 2
  /\ \E i \in DOMAIN last_used_cycles : last_used_cycles[i] > 0

\* C10 -- Random-policy victim selection: with an invalid way in the snapshot
\* the only possible result is the lowest-indexed invalid way of the whole
\* set, so the fills of an all-invalid set land in ways 0, 1, ... in order;
\* with every way valid the possible results are exactly the ways of the
\* set, whichever CPU asks.
C10_RandomVictim ==
  policy = "random" =>
    /\ \A cpu \in Cpus, set \in Sets, snap \in Snapshots :
         LET res == random_find_victim(cpu, set, snap)
             inv == {w \in Ways : ~snap[w]}
         IN  IF inv # {}
             THEN \E w \in inv : res = {w} /\ \A v \in inv : w <= v
             ELSE res = Ways
    /\ call.op = "random_fill" =>
         /\ call.way \in Ways
         /\ call.nth < NUM_WAY => call.way = call.nth

\* with the set full, a fill for CPU 0 took the last way of the set, which a
\* static split would give to another CPU
C10_Witness ==
  /\ policy = "random"
  /\ call.op = "random_fill"
  /\ call.cpu = 0
  /\ NUM_CPUS >= 2
  /\ NUM_WAY >= 2
  /\ \A w \in Ways : call.snap[w]
  /\ call.way = NUM_WAY - 1

\* C11 -- Configuration errors are rejected at setup (as claimed): with
\* NUM_CPUS above MAX_CPUS_FOR_COMPETITION, or NUM_WAY or NUM_SET not positive,
\* initialize_replacement does not complete normally, and no fill or access
\* is served afterwards.
BadConfig ==
  NUM_CPUS > MAX_CPUS_FOR_COMPETITION \/ NUM_WAY <= 0 \/ NUM_SET <= 0

C11_ConfigRejected ==
  BadConfig =>
    /\ ~initialized
    /\ call.op \in {"initialize", "fill", "access"} => call.outcome # "return"

\* C12 -- Out-of-range indices are detected (as claimed): a fill or access
\* notification whose way is outside [0, NUM_WAY) or whose set is outside
\* [0, NUM_SET) does not return normally and leaves the recency table and
\* the clock as they were.
OutOfRange(set, way) == ~(set \in Sets /\ way \in Ways)

C12_OutOfRangeDetected ==
  [][((call'.op = "on_fill" \/ (call'.op = "on_access" /\ call'.hit))
      /\ OutOfRange(call'.set, call'.way)) =>
       /\ call'.outcome # "return"
       /\ last_used_cycles' = last_used_cycles
       /\ cycle' = cycle]_vars

\* C13 -- Eviction attribution: an eviction of a block of CPU v caused by a
\* fill for CPU e adds exactly 1 to total_evictions_caused[e] and to
\* eviction_count[v]; if v # e it also adds exactly 1 to evictions_caused[e]
\* and to evicted_by_others[v], and if v = e those two vectors are unchanged;
\* the four counters of every other CPU are unchanged.  So the cross-CPU
\* vectors have equal sums, total_evictions_caused and eviction_count have
\* equal sums, and evictions_caused[c] <= total_evictions_caused[c].
EvictionCounters ==
  {"evictions_caused", "evicted_by_others", "total_evictions_caused", "eviction_count"}

C13_EvictionAttribution ==
  [][/\ call'.op = "stat_eviction" =>
          LET e == call'.evictor
              v == call'.victim_owner
          IN  /\ stats'.total_evictions_caused[e] = stats.total_evictions_caused[e] + 1
              /\ stats'.eviction_count[v] = stats.eviction_count[v] + 1
              /\ IF v # e
                 THEN /\ stats'.evictions_caused[e] = stats.evictions_caused[e] + 1
                      /\ stats'.evicted_by_others[v] = stats.evicted_by_others[v] + 1
                 ELSE /\ stats'.evictions_caused = stats.evictions_caused
                      /\ stats'.evicted_by_others = stats.evicted_by_others
              /\ \A c \in CpuSlots \ {e, v} :
                   \A f \in EvictionCounters : stats'[f][c] = stats[f][c]
     /\ SumVec(stats'.evictions_caused) = SumVec(stats'.evicted_by_others)
     /\ SumVec(stats'.total_evictions_caused) = SumVec(stats'.eviction_count)
     /\ \A c \in CpuSlots :
          stats'.evictions_caused[c] <= stats'.total_evictions_caused[c]]_vars

\* a fill for CPU 0 has evicted a block of CPU 1
C13_Witness ==
  /\ call.op = "stat_eviction"
  /\ call.evictor = 0
  /\ call.victim_owner = 1
  /\ stats.evictions_caused[0] = 1
  /\ stats.evicted_by_others[1] = 1
  /\ stats.eviction_count[1] = 1

\* the per-period deltas of field f computed at the heartbeats after t1 up
\* to and including t2, summed
SumDeltas(f, t1, t2) ==
  LET RECURSIVE from(_)
      from(t) == IF t > t2
                 THEN (IF f \in ScalarFields THEN 0 ELSE ZeroVec)
                 ELSE FieldPlus(f, hb.deltas[t][f], from(t + 1))
  IN  from(t1 + 1)

NonNegative(f, x) == IF f \in ScalarFields THEN x >= 0 ELSE \A c \in CpuSlots : x[c] >= 0

DeltasAgree(fields) ==
  \A t1 \in 1 .. hb.beats, t2 \in 1 .. hb.beats :
    t1 < t2 =>
      \A f \in fields :
        /\ \A t \in (t1 + 1) .. t2 :
             f \in DOMAIN hb.deltas[t] /\ NonNegative(f, hb.deltas[t][f])
        /\ SumDeltas(f, t1, t2) = FieldMinus(f, hb.snaps[t2][f], hb.snaps[t1][f])

\* C14 -- Heartbeat delta agreement (as claimed): for any two heartbeats
\* t1 < t2 and every live counter field, a per-period delta exists at each
\* heartbeat after t1 up to t2, none is negative, and their sum is the
\* elementwise difference of the live counters read at t2 and at t1.
C14_HeartbeatDeltaAgreement == DeltasAgree(LiveFields)

\* the same agreement for the live counters that have a last_heartbeat member
ShadowedDeltasAgree == DeltasAgree(DOMAIN ShadowOf)

\* C15 -- Counter monotonicity: no live counter ever decreases; a shadow
\* changes only at a heartbeat, which sets it to the value of its live
\* counterpart, so shadow <= live always; and misses[c] <= accesses[c].
C15_CounterMonotonicity ==
  [][/\ \A f \in LiveFields : NonNegative(f, FieldMinus(f, stats'[f], stats[f]))
     /\ \A f \in DOMAIN ShadowOf :
          /\ stats'[ShadowOf[f]] # stats[ShadowOf[f]] => call'.op = "heartbeat"
          /\ call'.op = "heartbeat" => stats'[ShadowOf[f]] = stats'[f]
          /\ NonNegative(f, FieldMinus(f, stats'[f], stats'[ShadowOf[f]]))
     /\ \A c \in CpuSlots : stats'.misses[c] <= stats'.accesses[c]]_vars

\* a miss counted after a heartbeat that had already moved the shadow of
\* accesses off zero
C15_Witness ==
  /\ call.op = "stat_access"
  /\ hb.beats >= 1
  /\ stats.last_heartbeat_accesses[1] >= 1
  /\ stats.accesses[1] > stats.last_heartbeat_accesses[1]
  /\ stats.misses[1] > stats.last_heartbeat_misses[1]

\* C16 -- select_victim is a pure decision: a find_victim call, for any CPU,
\* set and snapshot, leaves the recency table, the clock and the margin table
\* as they were; so a second call with the same CPU, set and snapshot, made
\* in the state the first one leaves behind, returns the same way.
C16_SelectVictimPure ==
  [][call'.op = "find_victim" =>
       /\ last_used_cycles' = last_used_cycles
       /\ cycle' = cycle
       /\ partition_left_margins' = partition_left_margins
       /\ \A cpu \in Cpus, set \in Sets, snap \in Snapshots :
            (cpu = call'.cpu /\ set = call'.set /\ snap = call'.snap) =>
              (find_victim(cpu, set, snap))' =
                 [outcome |-> call'.outcome, way |-> call'.way]]_vars

\* an LRU decision among two or more stamped ways that did not take the
\* first way of the partition
C16_Witness ==
  /\ call.op = "find_victim"
  /\ call.outcome = "return"
  /\ Width(call.cpu) >= 2
  /\ AllValidIn(call.cpu, call.snap)
  /\ call.way > partition_start(call.cpu)
  /\ cycle >= 2

\* C17 -- Frame of the notifications: an in-range fill notification, or an
\* in-range hit that is not a write, writes the clock into recency[set, way]
\* and advances the clock by one, whichever CPU it is made for; a write hit
\* or a miss changes nothing; no notification changes any other recency
\* entry or the margin table, which stays as initialize_replacement computed
\* it.
InRange(set, way) == set \in Sets /\ way \in Ways

C17_NotificationFrame ==
  [][/\ initialized => partition_left_margins' = partition_left_margins
     /\ (call'.op = "on_fill" /\ InRange(call'.set, call'.way)) =>
          /\ last_used_cycles' =
               [last_used_cycles EXCEPT ![call'.set * NUM_WAY + call'.way] = cycle]
          /\ cycle' = cycle + 1
     /\ (call'.op = "on_access" /\ call'.hit /\ InRange(call'.set, call'.way)) =>
          /\ \A i \in DOMAIN last_used_cycles :
               i # call'.set * NUM_WAY + call'.way =>
                 last_used_cycles'[i] = last_used_cycles[i]
          /\ IF call'.type # "WRITE"
             THEN /\ last_used_cycles'[call'.set * NUM_WAY + call'.way] = cycle
                  /\ cycle' = cycle + 1
             ELSE /\ last_used_cycles' = last_used_cycles
                  /\ cycle' = cycle
     /\ (call'.op = "on_access" /\ ~call'.hit) =>
          /\ last_used_cycles' = last_used_cycles
          /\ cycle' = cycle]_vars

\* a fill notification for a way of the second CPU's partition, with another
\* entry stamped before it
C17_Witness ==
  /\ call.op = "on_fill"
  /\ InRange(call.set, call.way)
  /\ Width(0) >= 1
  /\ call.way >= partition_start(1)
  /\ \E i \in stamped : i # call.set * NUM_WAY + call.way /\ last_used_cycles[i] = cycle - 2
  /\ last_used_cycles[call.set * NUM_WAY + call.way] = cycle - 1

\* position of an entry in the order of latest qualifying uses (0: never used)
UsePos(slot) ==
  IF \E i \in 1 .. Len(use_order) : use_order[i] = slot
  THEN CHOOSE i \in 1 .. Len(use_order) : use_order[i] = slot
  ELSE 0

\* the way of the CPU's partition whose latest qualifying use is the earliest
LeastRecentlyUsed(cpu, set) ==
  CHOOSE w \in PartitionOf(cpu) :
    \A v \in PartitionOf(cpu) \ {w} :
      UsePos(set * NUM_WAY + w) < UsePos(set * NUM_WAY + v)

\* C18 -- Least-recently-used in event order: in the closed loop, where a way
\* becomes valid only through a reported fill, whenever the whole non-empty
\* partition of a CPU is valid in a set, every way of it has had a qualifying
\* use (its fill, or a later hit that is not a write) and find_victim returns
\* the way whose latest qualifying use is the earliest in the event sequence.
\* The order of qualifying uses is not moved by a write hit or a miss, so
\* neither postpones an eviction.
C18_LruEventOrder ==
  Running =>
    \A cpu \in Cpus, set \in Sets :
      (Width(cpu) > 0 /\ AllValidIn(cpu, SetSnapshot(set))) =>
        /\ \A w \in PartitionOf(cpu) : UsePos(set * NUM_WAY + w) > 0
        /\ find_victim(cpu, set, SetSnapshot(set)) =
             [outcome |-> "return", way |-> LeastRecentlyUsed(cpu, set)]

\* an eviction from a two-way partition that took the second way, the first
\* one having been hit by a read after both were filled
C18_Witness ==
  /\ Filled
  /\ Width(call.cpu) = 2
  /\ AllValidIn(call.cpu, call.snap)
  /\ call.way = partition_start(call.cpu) + 1
  /\ cycle = 4
  /\ use_order[Len(use_order)] = call.set * NUM_WAY + call.way
  /\ use_order[Len(use_order) - 1] = call.set * NUM_WAY + partition_start(call.cpu)

\* ways [left_margin[c], left_margin[c+1]) of CPU c, read off the margin table
MarginRange(c) == partition_left_margins[c] .. (partition_left_margins[c + 1] - 1)

\* valid ways of the set whose block is tagged with CPU c
OwnedWays(c, set) == {w \in Ways : blocks[set * NUM_WAY + w] /\ owner[set * NUM_WAY + w] = c}

\* C19 -- Ownership stays inside partitions: in the closed loop, where every
\* fill for CPU c goes to the way find_victim returned for c, and every CPU
\* has a non-empty partition, each valid block in way w is owned by the CPU
\* whose partition contains w, each CPU owns at most
\* left_margin[c+1] - left_margin[c] valid ways per set, every eviction so
\* far had the evictor as the victim's owner (a CPU's evictions caused equal
\* the evictions of its own blocks), and evictions_caused[c] and
\* evicted_by_others[c] are 0 for every CPU.
C19_OwnershipInsidePartitions ==
  (Running /\ \A c \in Cpus : partition_left_margins[c] < partition_left_margins[c + 1]) =>
    /\ \A set \in Sets, w \in Ways :
         blocks[set * NUM_WAY + w] =>
           /\ owner[set * NUM_WAY + w] \in Cpus
           /\ w \in MarginRange(owner[set * NUM_WAY + w])
    /\ \A c \in Cpus, set \in Sets :
         Cardinality(OwnedWays(c, set)) <= partition_left_margins[c + 1] - partition_left_margins[c]
    /\ \A c \in Cpus : stats.total_evictions_caused[c] = stats.eviction_count[c]
    /\ \A c \in CpuSlots :
         /\ stats.evictions_caused[c] = 0
         /\ stats.evicted_by_others[c] = 0

\* the second of two CPUs has just evicted a block, while the first CPU
\* holds a block in the same set
C19_Witness ==
  /\ Filled
  /\ NUM_CPUS = 2
  /\ call.cpu = 1
  /\ \A c \in Cpus : partition_left_margins[c] < partition_left_margins[c + 1]
  /\ call.snap[call.way]
  /\ OwnedWays(0, call.set) # {}
  /\ stats.total_evictions_caused[1] >= 1
  /\ stats.eviction_count[1] >= 1

NeverStamped == DOMAIN last_used_cycles \ stamped

\* C20 as stated -- Stamp uniqueness and clock bound: in every reachable
\* state of the policy the clock equals the number of stamps performed so
\* far, every stamped entry is strictly less than the clock, two distinct
\* stamped entries differ, and every stamped entry is strictly greater than
\* every entry that has never been stamped.
C20_StampUniqueness ==
  policy = "partition" =>
    /\ cycle = stamps
    /\ \A i \in stamped : last_used_cycles[i] < cycle
    /\ \A i, j \in stamped : i # j => last_used_cycles[i] # last_used_cycles[j]
    /\ \A i \in stamped, j \in NeverStamped : last_used_cycles[i] > last_used_cycles[j]

\* C20 amended -- the clock equals the number of stamps performed so far
\* until a notification throws (after the throw it is that number or one
\* more); every stamped entry is strictly less than the number of stamps;
\* two distinct stamped entries differ; a never-stamped entry holds 0, and a
\* stamped entry is greater than or equal to it, equal exactly when it
\* holds the first stamp of the run, which is 0.
C20_StampUniquenessAmended ==
  policy = "partition" =>
    /\ stamps <= cycle /\ cycle <= stamps + 1
    /\ ~halted => cycle = stamps
    /\ \A i \in stamped : last_used_cycles[i] < stamps
    /\ \A i, j \in stamped : i # j => last_used_cycles[i] # last_used_cycles[j]
    /\ \A j \in NeverStamped : last_used_cycles[j] = 0
    /\ \A i \in stamped, j \in NeverStamped :
         /\ last_used_cycles[i] >= last_used_cycles[j]
         /\ (last_used_cycles[i] = last_used_cycles[j]) <=> (last_used_cycles[i] = 0)

\* two entries stamped 0 and 1 beside an entry that was never stamped: the
\* first of them ties with it
C20_Witness ==
  /\ stamps = 2
  /\ cycle = 2
  /\ NeverStamped # {}
  /\ \E i, k \in stamped : last_used_cycles[i] = 0 /\ last_used_cycles[k] = 1
  /\ \E i \in stamped, j \in NeverStamped : last_used_cycles[i] = last_used_cycles[j]

====
